---- MODULE Spec2Model ----
(***************************************************************************)
(* The TWTS background field of PIConGPU                                   *)
(* (fields/background/templates/bgrTWTS.hpp): the two field functors       *)
(* TWTSFieldE and TWTSFieldB, their constructors, the time delay, the      *)
(* position mappers and the rotation of positions and fields.              *)
(*                                                                         *)
(* Numbers.  A floating point value is modelled by the exact rational it   *)
(* stands for, <<n, d>> in lowest terms with d >= 0; d = 0 gives the IEEE   *)
(* infinities (<<1,0>>, <<-1,0>>) and NaN (<<0,0>>), so that a division by   *)
(* zero is a value and not an error, as in the program.  Rounding is not   *)
(* modelled.                                                               *)
(*                                                                         *)
(* Units.  Lengths are in units of 1e-7 m and times in units of 1e-15 s.   *)
(*                                                                         *)
(* Angles.  An angle is the record of the values the math library returns  *)
(* for it: sin(phi), cos(phi) and cos(PI/2 - phi/2).  The table holds      *)
(* angles for which these are rational, and PI/2, for which              *)
(* cos(PI/4) is irrational, once with each of the bounds 0.7071 and 0.7072.*)
(*                                                                         *)
(* The closed forms calcTWTSEx, calcTWTSBy and calcTWTSBz are              *)
(* uninterpreted: an evaluation is the term [fn, pos, time].  A field      *)
(* value is a linear combination of such terms, a sequence of              *)
(* [c |-> coefficient, e |-> term]; the constant 0 is the empty sequence.  *)
(***************************************************************************)
EXTENDS Integers, Sequences, FiniteSets, TLC

VARIABLES env, param, fieldE, fieldB, out, units

vars == <<env, param, fieldE, fieldB, out, units>>

(***************************************************************************)
(* Bounds of the model.                                                    *)
(***************************************************************************)
MaxCell == 1
MaxStep == 1
NumUnits == 2

(***************************************************************************)
(* Rational arithmetic with the IEEE special values.                       *)
(***************************************************************************)
Abs(n) == IF n < 0 THEN -n ELSE n

Sgn(n) == IF n < 0 THEN -1 ELSE IF n > 0 THEN 1 ELSE 0

RECURSIVE GCD(_, _)
GCD(a, b) == IF b = 0 THEN a ELSE GCD(b, a % b)

Norm(n, d) ==
    IF d = 0 THEN <<Sgn(n), 0>>
    ELSE IF d = 1 THEN <<n, 1>>
    ELSE LET g == GCD(Abs(n), Abs(d))
         IN  <<Sgn(n) * Sgn(d) * (Abs(n) \div g), Abs(d) \div g>>

Num(n) == <<n, 1>>

Zero == <<0, 1>>

One == <<1, 1>>

Half == <<1, 2>>

NaN == <<0, 0>>

IsFinite(a) == a[2] # 0

RNeg(a) == <<-a[1], a[2]>>

RAbs(a) == <<Abs(a[1]), a[2]>>

RAdd(a, b) ==
    IF a[2] = 0 \/ b[2] = 0
    THEN IF a = NaN \/ b = NaN THEN NaN
         ELSE IF a[2] = 0 /\ b[2] = 0
              THEN (IF a = b THEN a ELSE NaN)
              ELSE (IF a[2] = 0 THEN a ELSE b)
    ELSE IF a[2] = b[2] THEN Norm(a[1] + b[1], a[2])
    ELSE LET g == GCD(a[2], b[2])
         IN  Norm(a[1] * (b[2] \div g) + b[1] * (a[2] \div g),
                  (a[2] \div g) * b[2])

RSub(a, b) == RAdd(a, RNeg(b))

RMul(a, b) ==
    IF a = NaN \/ b = NaN THEN NaN
    ELSE IF a[2] = 1 /\ b[2] = 1 THEN <<a[1] * b[1], 1>>
    ELSE LET g1 == GCD(Abs(a[1]), b[2])
             g2 == GCD(Abs(b[1]), a[2])
             h1 == IF g1 = 0 THEN 1 ELSE g1
             h2 == IF g2 = 0 THEN 1 ELSE g2
         IN  <<(a[1] \div h1) * (b[1] \div h2), (a[2] \div h2) * (b[2] \div h1)>>

RInv(a) ==
    IF a = NaN THEN NaN
    ELSE IF a[1] = 0 THEN <<1, 0>>
    ELSE IF a[1] < 0 THEN <<-a[2], -a[1]>>
    ELSE <<a[2], a[1]>>

RDiv(a, b) == RMul(a, RInv(b))

(* a < b for finite a and b, without a product that could overflow:
   compare the integer parts, then the reciprocals of the fractions. *)
RECURSIVE LessPos(_, _, _, _)
LessPos(a, b, c, d) ==
    LET q1 == a \div b
        q2 == c \div d
        r1 == a % b
        r2 == c % d
    IN  IF q1 # q2 THEN q1 < q2
        ELSE IF r2 = 0 THEN FALSE
        ELSE IF r1 = 0 THEN TRUE
        ELSE LessPos(d, r2, b, r1)

RLess(a, b) ==
    IF a[1] < 0 /\ b[1] >= 0 THEN TRUE
    ELSE IF a[1] >= 0 /\ b[1] < 0 THEN FALSE
    ELSE IF a[1] >= 0 THEN LessPos(a[1], a[2], b[1], b[2])
    ELSE LessPos(-b[1], b[2], -a[1], a[2])

RLeq(a, b) == a = b \/ RLess(a, b)

(***************************************************************************)
(* Vectors are sequences of rationals, of length at most 3.                *)
(***************************************************************************)
MkVec(n, f) ==
    IF n = 3 THEN <<f[1], f[2], f[3]>>
    ELSE IF n = 2 THEN <<f[1], f[2]>>
    ELSE IF n = 1 THEN <<f[1]>>
    ELSE << >>

VAdd(u, v) == MkVec(Len(u), [i \in 1..Len(u) |-> RAdd(u[i], v[i])])

VSub(u, v) == MkVec(Len(u), [i \in 1..Len(u) |-> RSub(u[i], v[i])])

VMul(u, v) == MkVec(Len(u), [i \in 1..Len(u) |-> RMul(u[i], v[i])])

VNeg(u) == MkVec(Len(u), [i \in 1..Len(u) |-> RNeg(u[i])])

VScale(u, k) == MkVec(Len(u), [i \in 1..Len(u) |-> RMul(u[i], k)])

precisionCast(v) == MkVec(Len(v), [i \in 1..Len(v) |-> Num(v[i])])

(***************************************************************************)
(* float_X, the working precision: a value is rounded to the nearest        *)
(* number with a significand of FLOAT_X_MANTISSA bits, a tie to the even    *)
(* significand; the range of the exponent is not reached.  float_64 holds   *)
(* the values it is given.  Scaled(a, d, s) is the triple <<A, D, s>> with  *)
(* A/D = (a/d) * 2^s and 2^(bits-1) <= A/D < 2^bits.                        *)
(***************************************************************************)
FLOAT_X_MANTISSA == 24

RECURSIVE Scaled(_, _, _)
Scaled(a, d, s) ==
    IF a \div d < 2 ^ (FLOAT_X_MANTISSA - 1)
    THEN IF d % 2 = 0 THEN Scaled(a, d \div 2, s + 1)
                      ELSE Scaled(2 * a, d, s + 1)
    ELSE IF a \div d >= 2 ^ FLOAT_X_MANTISSA
    THEN IF a % 2 = 0 THEN Scaled(a \div 2, d, s - 1)
                      ELSE Scaled(a, 2 * d, s - 1)
    ELSE <<a, d, s>>

RECURSIVE IsPowerOf2(_)
IsPowerOf2(d) == d = 1 \/ (d % 2 = 0 /\ IsPowerOf2(d \div 2))

(* A value n / 2^k with |n| < 2^bits is held as it is. *)
Fits(a) == Abs(a[1]) < 2 ^ FLOAT_X_MANTISSA /\ IsPowerOf2(a[2])

float_X(a) ==
    IF a[2] = 0 \/ a[1] = 0 \/ Fits(a) THEN a
    ELSE LET t == Scaled(Abs(a[1]), a[2], 0)
             q == t[1] \div t[2]
             r == t[1] % t[2]
             m == IF 2 * r > t[2] \/ (2 * r = t[2] /\ q % 2 = 1)
                  THEN q + 1 ELSE q
         IN  IF t[3] >= 0 THEN Norm(Sgn(a[1]) * m, 2 ^ t[3])
                          ELSE Norm(Sgn(a[1]) * m * (2 ^ (-t[3])), 1)

precisionCast_float_X(v) == MkVec(Len(v), [i \in 1..Len(v) |-> float_X(Num(v[i]))])

(* The sum and the difference of vectors of float_X. *)
VAdd_X(u, v) == MkVec(Len(u), [i \in 1..Len(u) |-> float_X(RAdd(u[i], v[i]))])

VSub_X(u, v) == MkVec(Len(u), [i \in 1..Len(u) |-> float_X(RSub(u[i], v[i]))])

(***************************************************************************)
(* Angles: the values of sin(phi), cos(phi) and cos(PI/2 - phi/2) =        *)
(* sin(phi/2).  With t = tan(phi/4) rational all three are rational.       *)
(***************************************************************************)
Angle(s, c, ce) == [sin |-> s, cos |-> c, cosEta |-> ce]

PhiZero == Angle(Zero, One, Zero)

PhiT13 == Angle(<<24, 25>>, <<7, 25>>, <<3, 5>>)

PhiT12 == Angle(<<24, 25>>, <<-7, 25>>, <<4, 5>>)

PhiNegT13 == Angle(<<-24, 25>>, <<7, 25>>, <<-3, 5>>)

PhiPi == Angle(Zero, <<-1, 1>>, One)

PhiHalfPiLo == Angle(One, Zero, Norm(7071, 10000))

PhiHalfPiHi == Angle(One, Zero, Norm(7072, 10000))

PhiTable ==
    {PhiZero, PhiT13, PhiT12, PhiNegT13, PhiPi, PhiHalfPiLo, PhiHalfPiHi}

NegAngle(phi) == Angle(RNeg(phi.sin), phi.cos, RNeg(phi.cosEta))

sin(phi) == phi.sin

cos(phi) == phi.cos

(***************************************************************************)
(* The simulation the functors are built in: the dimension, the global     *)
(* domain, the cell size, the units, the time step and the positions of    *)
(* the field components in the cell of the field solver.                   *)
(***************************************************************************)
SPEED_OF_LIGHT_SI == <<1499, 500>>

YeeE(dim) ==
    IF dim = 3
    THEN <<<<Half, Zero, Zero>>, <<Zero, Half, Zero>>, <<Zero, Zero, Half>>>>
    ELSE <<<<Half, Zero>>, <<Zero, Half>>, <<Zero, Zero>>>>

YeeB(dim) ==
    IF dim = 3
    THEN <<<<Zero, Half, Half>>, <<Half, Zero, Half>>, <<Half, Half, Zero>>>>
    ELSE <<<<Zero, Half>>, <<Half, Zero>>, <<Half, Half>>>>

Environment(dim, size, cell, ul, deltaT) ==
    [simDim |-> dim, globalDomainSize |-> size, cellSize |-> cell,
     UNIT_LENGTH |-> ul, DELTA_T_SI |-> deltaT,
     EFieldPosition |-> YeeE(dim), BFieldPosition |-> YeeB(dim)]

Environments ==
    { Environment(3, <<8, 8, 128>>, <<One, One, One>>, One, One),
      Environment(3, <<5, 7, 10>>, <<One, Num(2), Num(3)>>, Num(2), Half),
      Environment(2, <<128, 8>>, <<One, One>>, One, One),
      Environment(2, <<5, 7>>, <<One, Num(2)>>, Num(2), Half) }

numComponents == 3

CELL_WIDTH_SI == RMul(env.cellSize[1], env.UNIT_LENGTH)

CELL_DEPTH_SI == RMul(env.cellSize[3], env.UNIT_LENGTH)

(***************************************************************************)
(* The arguments of the constructors.                                      *)
(***************************************************************************)
Parameters ==
    [focus_y_SI : {Zero, Num(6)},
     wavelength_SI : {Num(8)},
     pulselength_SI : {Num(5), Num(2)},
     w_x_SI : {Num(50)},
     w_y_SI : {Num(30)},
     phi : PhiTable,
     beta_0 : {One, Half},
     tdelay_user_SI : {Zero, Num(40)},
     auto_tdelay : BOOLEAN]

(***************************************************************************)
(* detail::RotateField: RotationMatrix[PI/2+phi] on the (y,z) components   *)
(* of a 3-vector, and on the components (y,x) of a 2-vector.               *)
(***************************************************************************)
(* Mutant: the rotation by phi, without the quarter turn. *)
RotateField3_ByPhi(fieldPosVector, phi) ==
    << fieldPosVector[1],
       RSub(RMul(cos(phi), fieldPosVector[2]),
            RMul(sin(phi), fieldPosVector[3])),
       RAdd(RMul(sin(phi), fieldPosVector[2]),
            RMul(cos(phi), fieldPosVector[3])) >>

RotateField3(fieldPosVector, phi) ==
    << fieldPosVector[1],
       RSub(RMul(RNeg(sin(phi)), fieldPosVector[2]),
            RMul(cos(phi), fieldPosVector[3])),
       RSub(RMul(cos(phi), fieldPosVector[2]),
            RMul(sin(phi), fieldPosVector[3])) >>

(* Mutant: the matrix applied to the pair (x,y) instead of (y,x). *)
RotateField2_Unswapped(fieldPosVector, phi) ==
    << RSub(RMul(RNeg(sin(phi)), fieldPosVector[1]),
            RMul(cos(phi), fieldPosVector[2])),
       RSub(RMul(cos(phi), fieldPosVector[1]),
            RMul(sin(phi), fieldPosVector[2])) >>

RotateField2(fieldPosVector, phi) ==
    << RSub(RMul(RNeg(sin(phi)), fieldPosVector[2]),
            RMul(cos(phi), fieldPosVector[1])),
       RSub(RMul(cos(phi), fieldPosVector[2]),
            RMul(sin(phi), fieldPosVector[1])) >>

rotateField(fieldPosVector, phi) ==
    IF Len(fieldPosVector) = 3
    THEN RotateField3(fieldPosVector, phi)
    ELSE RotateField2(fieldPosVector, phi)

(***************************************************************************)
(* detail::get_tdelay_SI, for DIM3 and for DIM2.                           *)
(***************************************************************************)
(* Mutant: the flag is not read, the delay is always computed. *)
get_tdelay_SI_DIM3_IgnoresFlag(auto_tdelay, tdelay_user_SI, halfSimSize, pulselength_SI, focus_y_SI, phi, beta_0) ==
    LET cosEta == phi.cosEta
        y1 == RMul(RMul(Num(halfSimSize[3]), CELL_DEPTH_SI), RAbs(cosEta))
        m  == Num(3)
        y2 == RDiv(RMul(m, RMul(pulselength_SI, SPEED_OF_LIGHT_SI)), cosEta)
        y3 == focus_y_SI
    IN  RDiv(RAdd(RAdd(y1, y2), y3), RMul(SPEED_OF_LIGHT_SI, beta_0))

(* Mutant: the walk-off over the half width instead of the half depth. *)
get_tdelay_SI_DIM3_HalfWidth(auto_tdelay, tdelay_user_SI, halfSimSize, pulselength_SI, focus_y_SI, phi, beta_0) ==
    IF auto_tdelay
    THEN LET cosEta == phi.cosEta
             y1 == RMul(RMul(Num(halfSimSize[1]), CELL_DEPTH_SI), RAbs(cosEta))
             m  == Num(3)
             y2 == RDiv(RMul(m, RMul(pulselength_SI, SPEED_OF_LIGHT_SI)), cosEta)
             y3 == focus_y_SI
         IN  RDiv(RAdd(RAdd(y1, y2), y3), RMul(SPEED_OF_LIGHT_SI, beta_0))
    ELSE tdelay_user_SI

get_tdelay_SI_DIM3(auto_tdelay, tdelay_user_SI, halfSimSize, pulselength_SI, focus_y_SI, phi, beta_0) ==
    IF auto_tdelay
    THEN LET cosEta == phi.cosEta
             y1 == RMul(RMul(Num(halfSimSize[3]), CELL_DEPTH_SI), RAbs(cosEta))
             m  == Num(3)
             y2 == RDiv(RMul(m, RMul(pulselength_SI, SPEED_OF_LIGHT_SI)), cosEta)
             y3 == focus_y_SI
         IN  RDiv(RAdd(RAdd(y1, y2), y3), RMul(SPEED_OF_LIGHT_SI, beta_0))
    ELSE tdelay_user_SI

(* Mutant: the walk-off over the half extent in y instead of that in x. *)
get_tdelay_SI_DIM2_HalfHeight(auto_tdelay, tdelay_user_SI, halfSimSize, pulselength_SI, focus_y_SI, phi, beta_0) ==
    IF auto_tdelay
    THEN LET cosEta == phi.cosEta
             y1 == RMul(RMul(Num(halfSimSize[2]), CELL_WIDTH_SI), RAbs(cosEta))
             m  == Num(3)
             y2 == RDiv(RMul(m, RMul(pulselength_SI, SPEED_OF_LIGHT_SI)), cosEta)
             y3 == focus_y_SI
         IN  RDiv(RAdd(RAdd(y1, y2), y3), RMul(SPEED_OF_LIGHT_SI, beta_0))
    ELSE tdelay_user_SI

(* Mutant: the division by beta_0 is forgotten. *)
get_tdelay_SI_DIM2_NoBeta(auto_tdelay, tdelay_user_SI, halfSimSize, pulselength_SI, focus_y_SI, phi, beta_0) ==
    IF auto_tdelay
    THEN LET cosEta == phi.cosEta
             y1 == RMul(RMul(Num(halfSimSize[1]), CELL_WIDTH_SI), RAbs(cosEta))
             m  == Num(3)
             y2 == RDiv(RMul(m, RMul(pulselength_SI, SPEED_OF_LIGHT_SI)), cosEta)
             y3 == focus_y_SI
         IN  RDiv(RAdd(RAdd(y1, y2), y3), SPEED_OF_LIGHT_SI)
    ELSE tdelay_user_SI

get_tdelay_SI_DIM2(auto_tdelay, tdelay_user_SI, halfSimSize, pulselength_SI, focus_y_SI, phi, beta_0) ==
    IF auto_tdelay
    THEN LET cosEta == phi.cosEta
             y1 == RMul(RMul(Num(halfSimSize[1]), CELL_WIDTH_SI), RAbs(cosEta))
             m  == Num(3)
             y2 == RDiv(RMul(m, RMul(pulselength_SI, SPEED_OF_LIGHT_SI)), cosEta)
             y3 == focus_y_SI
         IN  RDiv(RAdd(RAdd(y1, y2), y3), RMul(SPEED_OF_LIGHT_SI, beta_0))
    ELSE tdelay_user_SI

get_tdelay_SI(auto_tdelay, tdelay_user_SI, halfSimSize, pulselength_SI, focus_y_SI, phi, beta_0) ==
    IF env.simDim = 3
    THEN get_tdelay_SI_DIM3(auto_tdelay, tdelay_user_SI, halfSimSize,
                            pulselength_SI, focus_y_SI, phi, beta_0)
    ELSE get_tdelay_SI_DIM2(auto_tdelay, tdelay_user_SI, halfSimSize,
                            pulselength_SI, focus_y_SI, phi, beta_0)

(***************************************************************************)
(* The constructors TWTSFieldE::TWTSFieldE and TWTSFieldB::TWTSFieldB.     *)
(***************************************************************************)
HalfSimSize == MkVec(env.simDim, [i \in 1..env.simDim |-> env.globalDomainSize[i] \div 2])

Functor(p) ==
    [focus_y_SI |-> p.focus_y_SI, wavelength_SI |-> p.wavelength_SI,
     pulselength_SI |-> p.pulselength_SI, w_x_SI |-> p.w_x_SI,
     w_y_SI |-> p.w_y_SI, phi |-> p.phi, beta_0 |-> p.beta_0,
     tdelay_user_SI |-> p.tdelay_user_SI, dt |-> env.DELTA_T_SI,
     unit_length |-> env.UNIT_LENGTH, auto_tdelay |-> p.auto_tdelay,
     halfSimSize |-> HalfSimSize,
     tdelay |-> get_tdelay_SI(p.auto_tdelay, p.tdelay_user_SI, HalfSimSize,
                              p.pulselength_SI, p.focus_y_SI, p.phi, p.beta_0)]

TWTSFieldE(p) == Functor(p)

(* Mutant: the B functor takes the delay of the user whatever the flag. *)
TWTSFieldB_UserDelay(p) == [Functor(p) EXCEPT !.tdelay = p.tdelay_user_SI]

TWTSFieldB(p) == Functor(p)

NotConstructed == [tdelay |-> "none"]

(***************************************************************************)
(* Field values: linear combinations of evaluations of the closed forms.   *)
(***************************************************************************)
Eval(fn, pos, time) == [fn |-> fn, pos |-> pos, time |-> time]

Value(e) == <<[c |-> One, e |-> e]>>

float_X_0 == << >>

LScale(k, v) ==
    MkVec(Len(v), [i \in 1..Len(v) |-> [c |-> RMul(k, v[i].c), e |-> v[i].e]])

LNeg(v) == LScale(RNeg(One), v)

LAdd(u, v) == u \o v

LSub(u, v) == u \o LNeg(v)

calcTWTSEx(pos, time) == Eval("Ex", pos, time)

calcTWTSBy(pos, time) == Eval("By", pos, time)

calcTWTSBz(pos, time) == Eval("Bz", pos, time)

(***************************************************************************)
(* The position mappers.  The ...Unrotated operators are the loop bodies   *)
(* up to the call of rotateField; the getters apply rotateField.           *)
(***************************************************************************)
cellDimensions(f) == VScale(env.cellSize, f.unit_length)

(* Mutant: the half extent in y is kept and shifted by the focus. *)
laserOrigin_Shifted(f) ==
    [precisionCast_float_X(f.halfSimSize) EXCEPT
        ![2] = float_X(RAdd(Num(f.halfSimSize[2]),
                            RDiv(f.focus_y_SI, cellDimensions(f)[2])))]

laserOrigin(f) ==
    [precisionCast_float_X(f.halfSimSize) EXCEPT
        ![2] = float_X(RDiv(f.focus_y_SI, cellDimensions(f)[2]))]

(* Mutant: every component is given the offset of the first one. *)
fieldPositionsUnrotated_FirstOffset(f, cellIdx, fieldOnGridPositions) ==
    LET cellDim == cellDimensions(f)
        shift   == VSub_X(precisionCast_float_X(cellIdx), laserOrigin(f))
    IN  MkVec(numComponents, [i \in 1..numComponents |-> VMul(VAdd_X(fieldOnGridPositions[1], shift), cellDim)])

fieldPositionsUnrotated(f, cellIdx, fieldOnGridPositions) ==
    LET cellDim == cellDimensions(f)
        shift   == VSub_X(precisionCast_float_X(cellIdx), laserOrigin(f))
    IN  MkVec(numComponents, [i \in 1..numComponents |-> VMul(VAdd_X(fieldOnGridPositions[i], shift), cellDim)])

EfieldPositionsUnrotated(f, cellIdx) ==
    fieldPositionsUnrotated(f, cellIdx, env.EFieldPosition)

getEfieldPositions_SI(f, cellIdx) ==
    LET eFieldPositions_SI == EfieldPositionsUnrotated(f, cellIdx)
    IN  MkVec(numComponents, [i \in 1..numComponents |-> rotateField(eFieldPositions_SI[i], f.phi)])

BfieldPositionsUnrotated_DIM3(f, cellIdx) ==
    fieldPositionsUnrotated(f, cellIdx, env.BFieldPosition)

getBfieldPositions_SI_DIM3(f, cellIdx) ==
    LET bFieldPositions_SI == BfieldPositionsUnrotated_DIM3(f, cellIdx)
    IN  MkVec(numComponents, [i \in 1..numComponents |-> rotateField(bFieldPositions_SI[i], f.phi)])

BfieldPositionsUnrotated_DIM2(f, cellIdx) ==
    LET storeForSwap == fieldPositionsUnrotated(f, cellIdx, env.BFieldPosition)
    IN  MkVec(numComponents, [i \in 1..numComponents |-> <<storeForSwap[i][2], storeForSwap[i][1]>>])

getBfieldPositions_SI_DIM2(f, cellIdx) ==
    LET bFieldPositions_SI == BfieldPositionsUnrotated_DIM2(f, cellIdx)
    IN  MkVec(numComponents, [i \in 1..numComponents |-> rotateField(bFieldPositions_SI[i], f.phi)])

BfieldPositionsUnrotated(f, cellIdx) ==
    IF env.simDim = 3
    THEN BfieldPositionsUnrotated_DIM3(f, cellIdx)
    ELSE BfieldPositionsUnrotated_DIM2(f, cellIdx)

getBfieldPositions_SI(f, cellIdx) ==
    IF env.simDim = 3
    THEN getBfieldPositions_SI_DIM3(f, cellIdx)
    ELSE getBfieldPositions_SI_DIM2(f, cellIdx)

(***************************************************************************)
(* float3_64 pos(0.0); for (i = first; i < simDim; ++i) pos[i] = v[i];     *)
(* with the indices of the program, which count from 0.                    *)
(***************************************************************************)
CopyFrom(first, v) ==
    MkVec(3, [i \in 1..3 |-> IF first <= i - 1 /\ i - 1 < env.simDim
                              THEN v[i] ELSE Zero])

(***************************************************************************)
(* getTWTSEfield_Normalized and getTWTSBfield_Normalized: the value        *)
(* returned and the evaluations of the closed forms, in program order.     *)
(***************************************************************************)
getTWTSEfield_Normalized_DIM3(f, eFieldPositions_SI, time) ==
    LET pos == CopyFrom(0, eFieldPositions_SI[1])
        Ex  == calcTWTSEx(pos, time)
    IN  [value |-> <<Value(Ex), float_X_0, float_X_0>>, evals |-> <<Ex>>]

(* Mutant: the 2-D value is evaluated at the position of Ex, as in 3-D. *)
getTWTSEfield_Normalized_DIM2_ExOffset(f, eFieldPositions_SI, time) ==
    LET pos == CopyFrom(1, eFieldPositions_SI[1])
        Ex  == calcTWTSEx(pos, time)
    IN  [value |-> <<float_X_0, float_X_0, Value(Ex)>>, evals |-> <<Ex>>]

(* Mutant: the 2-D value is put into the x component, as in 3-D. *)
getTWTSEfield_Normalized_DIM2_InX(f, eFieldPositions_SI, time) ==
    LET pos == CopyFrom(1, eFieldPositions_SI[3])
        Ex  == calcTWTSEx(pos, time)
    IN  [value |-> <<Value(Ex), float_X_0, float_X_0>>, evals |-> <<Ex>>]

getTWTSEfield_Normalized_DIM2(f, eFieldPositions_SI, time) ==
    LET pos == CopyFrom(1, eFieldPositions_SI[3])
        Ex  == calcTWTSEx(pos, time)
    IN  [value |-> <<float_X_0, float_X_0, Value(Ex)>>, evals |-> <<Ex>>]

getTWTSEfield_Normalized(f, eFieldPositions_SI, time) ==
    IF env.simDim = 3
    THEN getTWTSEfield_Normalized_DIM3(f, eFieldPositions_SI, time)
    ELSE getTWTSEfield_Normalized_DIM2(f, eFieldPositions_SI, time)

(* Mutant: Bz is evaluated at the position of Bx instead of that of Bz. *)
getTWTSBfield_Normalized_DIM3_BxOffset(f, bFieldPositions_SI, time) ==
    LET pos    == MkVec(numComponents, [k \in 1..numComponents |-> CopyFrom(0, bFieldPositions_SI[k])])
        By_By  == calcTWTSBy(pos[2], time)
        Bz_By  == calcTWTSBz(pos[2], time)
        By_Bz  == calcTWTSBy(pos[1], time)
        Bz_Bz  == calcTWTSBz(pos[1], time)
        By_rot == LAdd(LScale(RNeg(sin(f.phi)), Value(By_By)),
                       LScale(cos(f.phi), Value(Bz_By)))
        Bz_rot == LSub(LScale(RNeg(cos(f.phi)), Value(By_Bz)),
                       LScale(sin(f.phi), Value(Bz_Bz)))
    IN  [value |-> <<float_X_0, By_rot, Bz_rot>>,
         evals |-> <<By_By, Bz_By, By_Bz, Bz_Bz>>]

(* Mutant: the back rotation of Bz with the sign of sin(phi) turned. *)
getTWTSBfield_Normalized_DIM3_Sign(f, bFieldPositions_SI, time) ==
    LET pos    == MkVec(numComponents, [k \in 1..numComponents |-> CopyFrom(0, bFieldPositions_SI[k])])
        By_By  == calcTWTSBy(pos[2], time)
        Bz_By  == calcTWTSBz(pos[2], time)
        By_Bz  == calcTWTSBy(pos[3], time)
        Bz_Bz  == calcTWTSBz(pos[3], time)
        By_rot == LAdd(LScale(RNeg(sin(f.phi)), Value(By_By)),
                       LScale(cos(f.phi), Value(Bz_By)))
        Bz_rot == LAdd(LScale(RNeg(cos(f.phi)), Value(By_Bz)),
                       LScale(sin(f.phi), Value(Bz_Bz)))
    IN  [value |-> <<float_X_0, By_rot, Bz_rot>>,
         evals |-> <<By_By, Bz_By, By_Bz, Bz_Bz>>]

getTWTSBfield_Normalized_DIM3(f, bFieldPositions_SI, time) ==
    LET pos    == MkVec(numComponents, [k \in 1..numComponents |-> CopyFrom(0, bFieldPositions_SI[k])])
        By_By  == calcTWTSBy(pos[2], time)
        Bz_By  == calcTWTSBz(pos[2], time)
        By_Bz  == calcTWTSBy(pos[3], time)
        Bz_Bz  == calcTWTSBz(pos[3], time)
        By_rot == LAdd(LScale(RNeg(sin(f.phi)), Value(By_By)),
                       LScale(cos(f.phi), Value(Bz_By)))
        Bz_rot == LSub(LScale(RNeg(cos(f.phi)), Value(By_Bz)),
                       LScale(sin(f.phi), Value(Bz_Bz)))
    IN  [value |-> <<float_X_0, By_rot, Bz_rot>>,
         evals |-> <<By_By, Bz_By, By_Bz, Bz_Bz>>]

(* Mutant: the sign of Bz is not turned (Bz --> Bx instead of -Bx). *)
getTWTSBfield_Normalized_DIM2_NoFlip(f, bFieldPositions_SI, time) ==
    LET pos    == MkVec(numComponents, [k \in 1..numComponents |-> CopyFrom(1, bFieldPositions_SI[k])])
        By_By  == calcTWTSBy(pos[2], time)
        Bx_By  == calcTWTSBz(pos[2], time)
        By_Bx  == calcTWTSBy(pos[1], time)
        Bx_Bx  == calcTWTSBz(pos[1], time)
        By_rot == LAdd(LScale(RNeg(sin(f.phi)), Value(By_By)),
                       LScale(cos(f.phi), Value(Bx_By)))
        Bx_rot == LSub(LScale(RNeg(cos(f.phi)), Value(By_Bx)),
                       LScale(sin(f.phi), Value(Bx_Bx)))
    IN  [value |-> <<float_X_0, By_rot, Bx_rot>>,
         evals |-> <<By_By, Bx_By, By_Bx, Bx_Bx>>]

getTWTSBfield_Normalized_DIM2(f, bFieldPositions_SI, time) ==
    LET pos    == MkVec(numComponents, [k \in 1..numComponents |-> CopyFrom(1, bFieldPositions_SI[k])])
        By_By  == calcTWTSBy(pos[2], time)
        Bx_By  == calcTWTSBz(pos[2], time)
        By_Bx  == calcTWTSBy(pos[1], time)
        Bx_Bx  == calcTWTSBz(pos[1], time)
        By_rot == LAdd(LScale(RNeg(sin(f.phi)), Value(By_By)),
                       LScale(cos(f.phi), LNeg(Value(Bx_By))))
        Bx_rot == LSub(LScale(RNeg(cos(f.phi)), Value(By_Bx)),
                       LScale(sin(f.phi), LNeg(Value(Bx_Bx))))
    IN  [value |-> <<float_X_0, By_rot, Bx_rot>>,
         evals |-> <<By_By, Bx_By, By_Bx, Bx_Bx>>]

getTWTSBfield_Normalized(f, bFieldPositions_SI, time) ==
    IF env.simDim = 3
    THEN getTWTSBfield_Normalized_DIM3(f, bFieldPositions_SI, time)
    ELSE getTWTSBfield_Normalized_DIM2(f, bFieldPositions_SI, time)

(***************************************************************************)
(* TWTSFieldE::operator() and TWTSFieldB::operator().                      *)
(***************************************************************************)
(***************************************************************************)
(* The tilt of the pulse front in calcTWTSEx, calcTWTSBy and calcTWTSBz:   *)
(* alphaTilt = atan2(1 - beta0*cos(phi), beta0*sin(phi)), phiT = 2 *       *)
(* alphaTilt.  The value of atan2(y, x), an angle in (-PI, PI], is given    *)
(* by its direction, the ray from 0 through (x, y) as a pair of coprime    *)
(* integers; atan2(0, 0) = 0 is the ray <<1, 0>>.  phiT is held by its     *)
(* half alphaTilt, so that two values of phiT are equal exactly if their   *)
(* halves have the same direction.                                        *)
(***************************************************************************)
atan2(y, x) ==
    IF x[1] = 0 /\ y[1] = 0 THEN <<1, 0>>
    ELSE LET X == x[1] * y[2]
             Y == y[1] * x[2]
             g == GCD(Abs(X), Abs(Y))
         IN  <<X \div g, Y \div g>>

(* Mutant: the arguments of atan2 in the other order. *)
alphaTilt_Swapped(f) ==
    atan2(RMul(f.beta_0, sin(f.phi)), RSub(One, RMul(f.beta_0, cos(f.phi))))

alphaTilt(f) ==
    atan2(RSub(One, RMul(f.beta_0, cos(f.phi))), RMul(f.beta_0, sin(f.phi)))

(* Mutant: the delay is added instead of subtracted. *)
time_SI_PlusDelay(f, currentStep) == RAdd(RMul(Num(currentStep), f.dt), f.tdelay)

time_SI(f, currentStep) == RSub(RMul(Num(currentStep), f.dt), f.tdelay)

TWTSFieldE_call(f, cellIdx, currentStep) ==
    getTWTSEfield_Normalized(f, getEfieldPositions_SI(f, cellIdx),
                             time_SI(f, currentStep))

TWTSFieldB_call(f, cellIdx, currentStep) ==
    getTWTSBfield_Normalized(f, getBfieldPositions_SI(f, cellIdx),
                             time_SI(f, currentStep))

(***************************************************************************)
(* The state machine: the simulation is set up, the two functors are       *)
(* constructed on the host, and each is called for cells and steps (CallE  *)
(* and CallB are the two operator(), step by step as TWTSFieldE_call and   *)
(* TWTSFieldB_call, which give the same value as a function).  out         *)
(* holds the call that has returned and whose value the caller has not     *)
(* yet taken: its arguments, the positions before and after rotateField,   *)
(* the evaluation time, the evaluations made and the value returned.       *)
(***************************************************************************)
Cells == [1..env.simDim -> 0..MaxCell]

Steps == 0..MaxStep

NoCall == [kind |-> "none"]

(***************************************************************************)
(* The execution units that call the functors in parallel, one cell each.  *)
(* A unit has the frame of its call of operator(): the arguments and the   *)
(* automatic variables time_SI and eFieldPositions_SI/bFieldPositions_SI,  *)
(* and the value returned; pc is its position in operator().               *)
(***************************************************************************)
Units == 1..NumUnits

Unassigned == << >>

IdleFrame ==
    [pc |-> "idle", kind |-> "none", cellIdx |-> << >>, currentStep |-> 0,
     time_SI |-> Zero, i |-> 0,
     positions_SI |-> <<Unassigned, Unassigned, Unassigned>>,
     result |-> << >>]

Init ==
    /\ env \in Environments
    /\ param \in Parameters
    /\ fieldE = NotConstructed
    /\ fieldB = NotConstructed
    /\ out = NoCall
    /\ units = [t \in Units |-> IdleFrame]

ConstructE ==
    /\ fieldE = NotConstructed
    /\ fieldE' = TWTSFieldE(param)
    /\ UNCHANGED <<env, param, fieldB, out, units>>

ConstructB ==
    /\ fieldB = NotConstructed
    /\ fieldB' = TWTSFieldB(param)
    /\ UNCHANGED <<env, param, fieldE, out, units>>

(* Mutant: the call keeps the evaluation time in the member tdelay. *)
CallE_CachesTime ==
    /\ fieldE # NotConstructed
    /\ out = NoCall
    /\ \E cellIdx \in Cells :
          LET eFieldPositions_SI == getEfieldPositions_SI(fieldE, cellIdx)
              unrot == EfieldPositionsUnrotated(fieldE, cellIdx)
          IN  \E currentStep \in Steps :
                LET time == time_SI(fieldE, currentStep)
                    r == getTWTSEfield_Normalized(fieldE, eFieldPositions_SI,
                                                  time)
                IN  /\ out' = [kind |-> "E", cellIdx |-> cellIdx,
                               currentStep |-> currentStep, time |-> time,
                               unrot |-> unrot, pos |-> eFieldPositions_SI,
                               evals |-> r.evals, value |-> r.value,
                               alphaTilt |-> alphaTilt(fieldE)]
                    /\ fieldE' = [fieldE EXCEPT !.tdelay = RNeg(time)]
    /\ UNCHANGED <<env, param, fieldB, units>>

CallE ==
    /\ fieldE # NotConstructed
    /\ out = NoCall
    /\ \E cellIdx \in Cells :
          LET eFieldPositions_SI == getEfieldPositions_SI(fieldE, cellIdx)
              unrot == EfieldPositionsUnrotated(fieldE, cellIdx)
          IN  \E currentStep \in Steps :
                LET time == time_SI(fieldE, currentStep)
                    r == getTWTSEfield_Normalized(fieldE, eFieldPositions_SI,
                                                  time)
                IN  out' = [kind |-> "E", cellIdx |-> cellIdx,
                            currentStep |-> currentStep, time |-> time,
                            unrot |-> unrot, pos |-> eFieldPositions_SI,
                            evals |-> r.evals, value |-> r.value,
                            alphaTilt |-> alphaTilt(fieldE)]
    /\ UNCHANGED <<env, param, fieldE, fieldB, units>>

CallB ==
    /\ fieldB # NotConstructed
    /\ out = NoCall
    /\ \E cellIdx \in Cells :
          LET bFieldPositions_SI == getBfieldPositions_SI(fieldB, cellIdx)
              unrot == BfieldPositionsUnrotated(fieldB, cellIdx)
          IN  \E currentStep \in Steps :
                LET time == time_SI(fieldB, currentStep)
                    r == getTWTSBfield_Normalized(fieldB, bFieldPositions_SI,
                                                  time)
                IN  out' = [kind |-> "B", cellIdx |-> cellIdx,
                            currentStep |-> currentStep, time |-> time,
                            unrot |-> unrot, pos |-> bFieldPositions_SI,
                            evals |-> r.evals, value |-> r.value,
                            alphaTilt |-> alphaTilt(fieldB)]
    /\ UNCHANGED <<env, param, fieldE, fieldB, units>>

(* The caller (the superposition of the background field) takes the value. *)
TakeValue ==
    /\ out # NoCall
    /\ out' = NoCall
    /\ UNCHANGED <<env, param, fieldE, fieldB, units>>

Next == ConstructE \/ ConstructB \/ CallE \/ CallB \/ TakeValue

Spec == Init /\ [][Next]_vars

(***************************************************************************)
(* Parallel calls.  Both functors have been constructed on the host; each  *)
(* unit enters operator() of one of them for a cell and a step and runs    *)
(* its three statements, interleaved in any order with those of the other  *)
(* units.  Frame(t) is the frame the statements of unit t read.            *)
(***************************************************************************)
ParParameters ==
    {p \in Parameters :
        /\ <<p.phi, p.beta_0>> \in {<<PhiT13, Half>>, <<PhiZero, One>>}
        /\ p.focus_y_SI = Num(6)
        /\ p.pulselength_SI = Num(5)
        /\ p.tdelay_user_SI = Num(40)}

ParCells == {[i \in 1..env.simDim |-> 0], [i \in 1..env.simDim |-> MaxCell]}

ParSteps == {0, MaxStep}

ParCalls ==
    { <<[i \in 1..env.simDim |-> 0], 0>>,
      <<[i \in 1..env.simDim |-> MaxCell], MaxStep>> }

FunctorOf(kind) == IF kind = "E" THEN fieldE ELSE fieldB

(* Mutant: time_SI is one variable shared by the units (a static local),
   so that a unit reads what the first unit wrote. *)
Frame_SharedTime(t) == [units[t] EXCEPT !.time_SI = units[1].time_SI]

Frame(t) == units[t]

(* Mutant: the loop over the field components does not advance. *)
Increment_Stuck(i) == i

(* ++i *)
Increment(i) == i + 1

(* Component i (counted from 0) of the positions a mapper returns. *)
PositionOf(kind, cellIdx, i) ==
    IF kind = "E"
    THEN getEfieldPositions_SI(fieldE, cellIdx)[i + 1]
    ELSE getBfieldPositions_SI(fieldB, cellIdx)[i + 1]

InitPar ==
    /\ env \in Environments
    /\ param \in ParParameters
    /\ fieldE = TWTSFieldE(param)
    /\ fieldB = TWTSFieldB(param)
    /\ out = NoCall
    /\ units = [t \in Units |-> IdleFrame]

Enter(t) ==
    /\ units[t].pc = "idle"
    /\ \E kind \in {"E", "B"}, call \in ParCalls :
          units' = [units EXCEPT ![t] =
                      [IdleFrame EXCEPT !.pc = "time", !.kind = kind,
                                        !.cellIdx = call[1],
                                        !.currentStep = call[2]]]
    /\ UNCHANGED <<env, param, fieldE, fieldB, out>>

ComputeTime(t) ==
    /\ units[t].pc = "time"
    /\ units' = [units EXCEPT ![t] =
                   [units[t] EXCEPT
                      !.time_SI = time_SI(FunctorOf(Frame(t).kind),
                                          Frame(t).currentStep),
                      !.i = 0,
                      !.pc = "positions"]]
    /\ UNCHANGED <<env, param, fieldE, fieldB, out>>

(* One turn of for( i = 0; i < numComponents; ++i ) in the mapper. *)
LoopPositions(t) ==
    /\ units[t].pc = "positions"
    /\ Frame(t).i < numComponents
    /\ units' = [units EXCEPT ![t] =
                   [units[t] EXCEPT
                      !.positions_SI[Frame(t).i + 1] =
                          PositionOf(Frame(t).kind, Frame(t).cellIdx,
                                     Frame(t).i),
                      !.i = Increment(Frame(t).i)]]
    /\ UNCHANGED <<env, param, fieldE, fieldB, out>>

(* The loop is left and the field is computed and returned. *)
ComputeField(t) ==
    /\ units[t].pc = "positions"
    /\ ~(Frame(t).i < numComponents)
    /\ units' = [units EXCEPT ![t] =
                   [units[t] EXCEPT
                      !.result =
                          IF Frame(t).kind = "E"
                          THEN getTWTSEfield_Normalized(
                                   fieldE, Frame(t).positions_SI,
                                   Frame(t).time_SI).value
                          ELSE getTWTSBfield_Normalized(
                                   fieldB, Frame(t).positions_SI,
                                   Frame(t).time_SI).value,
                      !.pc = "returned"]]
    /\ UNCHANGED <<env, param, fieldE, fieldB, out>>

Leave(t) ==
    /\ units[t].pc = "returned"
    /\ units' = [units EXCEPT ![t] = IdleFrame]
    /\ UNCHANGED <<env, param, fieldE, fieldB, out>>

EnterAny == \E t \in Units : Enter(t)

ComputeTimeAny == \E t \in Units : ComputeTime(t)

LoopPositionsAny == \E t \in Units : LoopPositions(t)

ComputeFieldAny == \E t \in Units : ComputeField(t)

LeaveAny == \E t \in Units : Leave(t)

NextPar ==
    EnterAny \/ ComputeTimeAny \/ LoopPositionsAny \/ ComputeFieldAny
             \/ LeaveAny

SpecPar == InitPar /\ [][NextPar]_vars

(***************************************************************************)
(* The properties.                                                         *)
(***************************************************************************)
Constructed == {f \in {fieldE, fieldB} : f # NotConstructed}

(* Arguments of get_tdelay_SI other than those of the constructors. *)
OtherHalfSimSizes == {<<1, 1, 1>>, <<9, 2, 30>>}

OtherTimes == {Num(1), Num(9)}

OtherLengths == {Zero, Num(11)}

OtherBetas == {One, <<3, 4>>, Zero}

(* C1: with auto_tdelay = false, get_tdelay_SI returns tdelay_user_SI
   exactly, in 2-D and in 3-D, whatever halfSimSize, pulselength, focus_y,
   phi and beta_0 are: the delay of every functor constructed without
   auto_tdelay is its tdelay_user_SI, and get_tdelay_SI gives the same
   value for every other choice of the remaining arguments. *)
C1_UserDelayPassthrough ==
    \A f \in Constructed :
        ~f.auto_tdelay =>
            /\ f.tdelay = f.tdelay_user_SI
            /\ out = NoCall =>
                 \A h \in OtherHalfSimSizes, pl \in OtherTimes,
                    fy \in OtherLengths, phi \in PhiTable, b \in OtherBetas :
                    get_tdelay_SI(FALSE, f.tdelay_user_SI, h, pl, fy, phi, b)
                        = f.tdelay_user_SI

C1_Witness ==
    /\ fieldE # NotConstructed
    /\ ~fieldE.auto_tdelay
    /\ env.simDim = 3
    /\ fieldE.tdelay_user_SI = Num(40)
    /\ fieldE.tdelay = Num(40)
    /\ fieldE.phi = PhiT13
    /\ fieldE.beta_0 = Half

(* The coefficients of the back rotation, read from the value a 3-D call of
   the B functor returned: By_rot = c[1][1]*By + c[1][2]*Bz and
   Bz_rot = c[2][1]*By + c[2][2]*Bz. *)
BackRotation ==
    << <<out.value[2][1].c, out.value[2][2].c>>,
       <<out.value[3][1].c, out.value[3][2].c>> >>

(* C2: the back rotation of the field in the B functor is the exact inverse
   of the forward rotation of the positions: for every position v that a
   3-D call of the B functor rotated, the back rotation of that call applied
   to the pair (y,z) of rotateField(v, phi) gives the pair (y,z) of v. *)
C2_BackRotationInverts ==
    (out.kind = "B" /\ env.simDim = 3) =>
        \A k \in 1..numComponents :
            LET v == out.unrot[k]
                a == out.pos[k][2]
                b == out.pos[k][3]
                M == BackRotation
            IN  /\ RAdd(RMul(M[1][1], a), RMul(M[1][2], b)) = v[2]
                /\ RAdd(RMul(M[2][1], a), RMul(M[2][2], b)) = v[3]

C2_Witness ==
    /\ out.kind = "B"
    /\ env.simDim = 3
    /\ fieldB.phi = PhiT13
    /\ out.unrot[2][2] # Zero
    /\ out.unrot[2][3] # Zero
    /\ out.pos[2] # out.unrot[2]

(* C3 as stated: the forward rotation with -phi undoes the forward rotation
   with phi, rotateField(rotateField(v, phi), -phi) = v, for every position
   v a 3-D call rotated. *)
C3_Original ==
    (out.kind # "none" /\ env.simDim = 3) =>
        \A k \in 1..numComponents :
            LET phi == IF out.kind = "E" THEN fieldE.phi ELSE fieldB.phi
            IN  rotateField(out.pos[k], NegAngle(phi)) = out.unrot[k]

(* C3 as amended: the forward rotation with -phi after the forward rotation
   with phi is the half turn of the pair (y,z):
   rotateField(rotateField((x,y,z), phi), -phi) = (x,-y,-z), for every
   position a 3-D call rotated. *)
C3_NegPhiGivesHalfTurn ==
    (out.kind # "none" /\ env.simDim = 3) =>
        \A k \in 1..numComponents :
            LET phi  == IF out.kind = "E" THEN fieldE.phi ELSE fieldB.phi
                v    == out.unrot[k]
                back == rotateField(out.pos[k], NegAngle(phi))
            IN  back = <<v[1], RNeg(v[2]), RNeg(v[3])>>

C3_Witness ==
    /\ out.kind = "E"
    /\ env.simDim = 3
    /\ fieldE.phi = PhiT12
    /\ out.unrot[1][2] # Zero
    /\ out.unrot[1][3] # Zero
    /\ rotateField(out.pos[1], NegAngle(fieldE.phi)) # out.unrot[1]

(* C4: rotateField is the matrix of the rotation by PI/2+phi: in 3-D it
   returns (x, -sin(phi)*y - cos(phi)*z, cos(phi)*y - sin(phi)*z), in 2-D
   (-sin(phi)*y - cos(phi)*x, cos(phi)*y - sin(phi)*x), for every position a
   call rotated. *)
C4_RotationMatrix ==
    out.kind # "none" =>
        \A k \in 1..numComponents :
            LET phi == IF out.kind = "E" THEN fieldE.phi ELSE fieldB.phi
                v   == out.unrot[k]
                r   == out.pos[k]
                s   == phi.sin
                c   == phi.cos
            IN  IF env.simDim = 3
                THEN /\ Len(r) = 3
                     /\ r[1] = v[1]
                     /\ RAdd(r[2], RAdd(RMul(s, v[2]), RMul(c, v[3]))) = Zero
                     /\ RAdd(r[3], RMul(s, v[3])) = RMul(c, v[2])
                ELSE /\ Len(r) = 2
                     /\ RAdd(r[1], RAdd(RMul(s, v[2]), RMul(c, v[1]))) = Zero
                     /\ RAdd(r[2], RMul(s, v[1])) = RMul(c, v[2])

C4_Witness ==
    /\ out.kind = "E"
    /\ env.simDim = 2
    /\ fieldE.phi = PhiNegT13
    /\ out.unrot[1][1] # Zero
    /\ out.unrot[1][2] # Zero
    /\ out.unrot[1][1] # out.unrot[1][2]
    /\ out.pos[1] = rotateField(out.unrot[1], fieldE.phi)

(* The half extent, in cells, and the cell size that enter the walk-off:
   those of the depth in 3-D and of the width in 2-D. *)
WalkOffCells(f) == IF env.simDim = 3 THEN f.halfSimSize[3] ELSE f.halfSimSize[1]

WalkOffCellSize ==
    IF env.simDim = 3
    THEN RMul(env.cellSize[3], env.UNIT_LENGTH)
    ELSE RMul(env.cellSize[1], env.UNIT_LENGTH)

(* C5: with auto_tdelay = true the delay is (y1 + y2 + y3) / (c * beta0)
   with y1 = halfDomainExtent * cellSize * |cos(eta)|,
   y2 = 3 * pulseLength * c / cos(eta) and y3 = focusY.  Multiplied out for
   cos(eta) # 0:
     delay * c * beta0 * cos(eta)
       = extent * cellSize * |cos(eta)| * cos(eta) + 3 * pulseLength * c
         + focusY * cos(eta);
   for cos(eta) = 0 the quotient y2 is a division by zero and the delay is
   not finite.  The delay does not depend on tdelay_user_SI. *)
C5_AutoDelayFormula ==
    \A f \in Constructed :
        f.auto_tdelay =>
            LET ce == f.phi.cosEta
                c  == SPEED_OF_LIGHT_SI
                y1 == RMul(RMul(Num(WalkOffCells(f)), WalkOffCellSize), RAbs(ce))
            IN  /\ ce # Zero =>
                     RMul(RMul(RMul(f.tdelay, c), f.beta_0), ce)
                       = RAdd(RAdd(RMul(y1, ce),
                                   RMul(Num(3), RMul(f.pulselength_SI, c))),
                              RMul(f.focus_y_SI, ce))
                /\ ce = Zero => ~IsFinite(f.tdelay)
                /\ out = NoCall =>
                     \A u \in OtherTimes :
                        get_tdelay_SI(TRUE, u, f.halfSimSize, f.pulselength_SI,
                                      f.focus_y_SI, f.phi, f.beta_0) = f.tdelay

C5_Witness ==
    /\ fieldB # NotConstructed
    /\ fieldB.auto_tdelay
    /\ env.simDim = 2
    /\ fieldB.phi = PhiNegT13
    /\ fieldB.beta_0 = Half
    /\ fieldB.focus_y_SI = Num(6)
    /\ IsFinite(fieldB.tdelay)
    /\ fieldB.tdelay # fieldB.tdelay_user_SI

(* The example: phi = PI/2, beta0 = 1, a pulse length of 5e-15 s, focusY = 0,
   a half depth of 64 cells of 0.1e-6 m, in 3-D. *)
ExampleEnvironment ==
    /\ env.simDim = 3
    /\ env.globalDomainSize[3] \div 2 = 64
    /\ RMul(env.cellSize[3], env.UNIT_LENGTH) = One

ExampleFunctor(f) ==
    /\ f # NotConstructed
    /\ f.auto_tdelay
    /\ f.phi \in {PhiHalfPiLo, PhiHalfPiHi}
    /\ f.beta_0 = One
    /\ f.pulselength_SI = Num(5)
    /\ f.focus_y_SI = Zero

(* 3.63e-14 s less and plus 1%, in units of 1e-15 s. *)
ExampleLow == Norm(35937, 1000)

ExampleHigh == Norm(36663, 1000)

(* The delay of the example computed with cos(PI/4) = cosine, and its part
   y1 / c, which is the delay for a pulse of length 0. *)
ExampleDelay(f, phi) ==
    get_tdelay_SI(TRUE, f.tdelay_user_SI, f.halfSimSize, f.pulselength_SI,
                  f.focus_y_SI, phi, f.beta_0)

ExampleWalkOff(f, phi) ==
    get_tdelay_SI(TRUE, f.tdelay_user_SI, f.halfSimSize, Zero,
                  f.focus_y_SI, phi, f.beta_0)

(* C6: the automatic delay of the example lies within 1% of 3.63e-14 s.
   cos(PI/4) lies between 0.7071 and 0.7072; y1 grows and y2 falls with it,
   so the delay lies between y1(0.7071) + y2(0.7072) and
   y1(0.7072) + y2(0.7071), over c.  Both bounds, and the delay computed
   with either bound of the cosine, lie within the 1%. *)
C6_ExampleDelay ==
    \A f \in Constructed :
        (ExampleEnvironment /\ ExampleFunctor(f)) =>
            LET y1Lo  == ExampleWalkOff(f, PhiHalfPiLo)
                y1Hi  == ExampleWalkOff(f, PhiHalfPiHi)
                y2Lo  == RSub(ExampleDelay(f, PhiHalfPiHi), y1Hi)
                y2Hi  == RSub(ExampleDelay(f, PhiHalfPiLo), y1Lo)
                lower == RAdd(y1Lo, y2Lo)
                upper == RAdd(y1Hi, y2Hi)
            IN  /\ RLeq(ExampleLow, f.tdelay) /\ RLeq(f.tdelay, ExampleHigh)
                /\ RLeq(ExampleLow, lower) /\ RLeq(lower, f.tdelay)
                /\ RLeq(f.tdelay, upper) /\ RLeq(upper, ExampleHigh)

C6_Witness ==
    /\ ExampleEnvironment
    /\ ExampleFunctor(fieldE)
    /\ fieldE.phi = PhiHalfPiLo
    /\ RLess(Num(36), fieldE.tdelay)
    /\ RLess(fieldE.tdelay, Num(37))

Term(k, e) == [c |-> k, e |-> e]

(* C7: a call of the E functor makes exactly one evaluation E of the closed
   form, of calcTWTSEx at the time of the call, and returns (E, 0, 0) in 3-D
   and (0, 0, E) in 2-D, the other two components being the constant 0. *)
C7_EFunctorValue ==
    out.kind = "E" =>
        /\ Len(out.evals) = 1
        /\ out.evals[1].fn = "Ex"
        /\ out.evals[1].time = out.time
        /\ env.simDim = 3 =>
             out.value = << <<Term(One, out.evals[1])>>, << >>, << >> >>
        /\ env.simDim = 2 =>
             out.value = << << >>, << >>, <<Term(One, out.evals[1])>> >>

C7_Witness ==
    /\ out.kind = "E"
    /\ env.simDim = 2
    /\ out.currentStep = 1
    /\ Len(out.evals) = 1
    /\ out.value[3] # << >>
    /\ out.value[1] = << >>

(* C8: a 3-D call of the B functor makes exactly four evaluations, By and
   Bz at the rotated position of By and By and Bz at the rotated position of
   Bz, and returns (0, By_out, Bz_out) with
   By_out = -sin(phi)*By(posBy) + cos(phi)*Bz(posBy) and
   Bz_out = -cos(phi)*By(posBz) - sin(phi)*Bz(posBz).  The position of Bx
   has no influence: with any other position in its place the functor
   returns the same. *)
C8_BFunctor3D ==
    (out.kind = "B" /\ env.simDim = 3) =>
        LET s     == fieldB.phi.sin
            c     == fieldB.phi.cos
            By_By == Eval("By", out.pos[2], out.time)
            Bz_By == Eval("Bz", out.pos[2], out.time)
            By_Bz == Eval("By", out.pos[3], out.time)
            Bz_Bz == Eval("Bz", out.pos[3], out.time)
        IN  /\ Len(out.evals) = 4
            /\ out.evals = <<By_By, Bz_By, By_Bz, Bz_Bz>>
            /\ out.value[1] = << >>
            /\ out.value[2] = <<Term(RNeg(s), By_By), Term(c, Bz_By)>>
            /\ out.value[3] = <<Term(RNeg(c), By_Bz), Term(RNeg(s), Bz_Bz)>>
            /\ \A other \in {<<Zero, Zero, Zero>>, <<NaN, One, Num(7)>>} :
                 LET r == getTWTSBfield_Normalized(
                              fieldB, [out.pos EXCEPT ![1] = other], out.time)
                 IN  r.value = out.value /\ r.evals = out.evals

C8_Witness ==
    /\ out.kind = "B"
    /\ env.simDim = 3
    /\ fieldB.phi = PhiT12
    /\ Len(out.evals) = 4
    /\ out.pos[1] # out.pos[2]
    /\ out.pos[1] # out.pos[3]
    /\ out.pos[2] # out.pos[3]

(* C9 as stated: a 2-D call of the B functor returns the value made with
   the negated Bz, Bx_out = -cos(phi)*By(posBx) - sin(phi)*(-Bz(posBx)), in
   the x component, By_out in the y component, and 0 in the z component. *)
C9_Claim ==
    (out.kind = "B" /\ env.simDim = 2) =>
        LET s      == fieldB.phi.sin
            c      == fieldB.phi.cos
            By_out == <<Term(RNeg(s), out.evals[1]), Term(RNeg(c), out.evals[2])>>
            Bx_out == <<Term(RNeg(c), out.evals[3]), Term(s, out.evals[4])>>
        IN  out.value = <<Bx_out, By_out, << >> >>

(* The position handed to the closed forms for the mapped position k in a
   2-D call. *)
EvalPos2D(k) == CopyFrom(1, out.pos[k])

(* C10: a 2-D call of the B functor makes exactly four evaluations, By and
   Bz at the position of By and By and Bz at the position of Bx, and
   combines them as in 3-D with -Bz in the place of Bz:
   By_out = -sin(phi)*By(posBy) + cos(phi)*(-Bz(posBy)) and
   Bx_out = -cos(phi)*By(posBx) - sin(phi)*(-Bz(posBx)) are components of
   the value returned. *)
C10_BFunctor2D ==
    (out.kind = "B" /\ env.simDim = 2) =>
        LET s      == fieldB.phi.sin
            c      == fieldB.phi.cos
            By_By  == Eval("By", EvalPos2D(2), out.time)
            Bz_By  == Eval("Bz", EvalPos2D(2), out.time)
            By_Bx  == Eval("By", EvalPos2D(1), out.time)
            Bz_Bx  == Eval("Bz", EvalPos2D(1), out.time)
            By_out == <<Term(RNeg(s), By_By), Term(RNeg(c), Bz_By)>>
            Bx_out == <<Term(RNeg(c), By_Bx), Term(s, Bz_Bx)>>
        IN  /\ Len(out.evals) = 4
            /\ out.evals = <<By_By, Bz_By, By_Bx, Bz_Bx>>
            /\ \E i \in 1..3 : out.value[i] = By_out
            /\ \E i \in 1..3 : out.value[i] = Bx_out

C10_Witness ==
    /\ out.kind = "B"
    /\ env.simDim = 2
    /\ fieldB.phi = PhiT13
    /\ Len(out.evals) = 4
    /\ EvalPos2D(1) # EvalPos2D(2)
    /\ EvalPos2D(3) # EvalPos2D(1)
    /\ out.value[2] # << >>

(* The position the 3-D functor hands to calcTWTSEx in the 3-D configuration
   that a 2-D one stands for (RotateField<Vector<T,2>>, "Explicit
   implementation in 3D coordinates"): the 2-D position (x, y) is the 3-D
   position (-z, y, x) with z = 0, which is rotated as in 3-D and copied
   whole. *)
Remapped3D(v) == <<Zero, v[2], v[1]>>

Pipeline3DPos(v, phi) == RotateField3(Remapped3D(v), phi)

(* C11 as stated: the amplitude a 2-D call of the E functor returns is the
   closed form evaluated where the 3-D functor evaluates it in the
   axis-remapped 3-D configuration with the out-of-plane coordinate 0: at the
   3-D rotation of (0, y, x), (x, y) being the position of Ez before the
   rotation, and at the same time. *)
C11_Claim ==
    (out.kind = "E" /\ env.simDim = 2) =>
        LET E3 == calcTWTSEx(Pipeline3DPos(out.unrot[3], fieldE.phi), out.time)
        IN  /\ out.evals = <<E3>>
            /\ out.value[3] = <<Term(One, E3)>>

(* C12: a call of the E or of the B functor changes no member of a functor:
   in every state, after any number of calls for any cells and steps, each
   constructed functor is what its constructor made of the arguments, and
   its tdelay is the value get_tdelay_SI gave at construction. *)
C12_CallsLeaveFunctor ==
    /\ fieldE # NotConstructed =>
         /\ fieldE = TWTSFieldE(param)
         /\ fieldE.tdelay =
              get_tdelay_SI(param.auto_tdelay, param.tdelay_user_SI,
                            HalfSimSize, param.pulselength_SI,
                            param.focus_y_SI, param.phi, param.beta_0)
    /\ fieldB # NotConstructed =>
         /\ fieldB = TWTSFieldB(param)
         /\ fieldB.tdelay =
              get_tdelay_SI(param.auto_tdelay, param.tdelay_user_SI,
                            HalfSimSize, param.pulselength_SI,
                            param.focus_y_SI, param.phi, param.beta_0)

C12_Witness ==
    /\ out.kind = "E"
    /\ out.currentStep = 1
    /\ out.time # RNeg(fieldE.tdelay)
    /\ fieldB # NotConstructed
    /\ fieldE.auto_tdelay
    /\ IsFinite(fieldE.tdelay)
    /\ fieldE = TWTSFieldE(param)

(* The call of unit t run alone. *)
Alone(t) ==
    IF units[t].kind = "E"
    THEN TWTSFieldE_call(fieldE, units[t].cellIdx, units[t].currentStep)
    ELSE TWTSFieldB_call(fieldB, units[t].cellIdx, units[t].currentStep)

(* C13: calls run in parallel on the same functors are independent: in
   every interleaving of the statements of the units, the value a unit's
   call returns is the value of that call run alone, the time and the
   positions it holds on the way are those the call alone computes from its
   own arguments, and the functors stay as constructed. *)
C13_ParallelCallsIndependent ==
    /\ fieldE = TWTSFieldE(param)
    /\ fieldB = TWTSFieldB(param)
    /\ \A t \in Units :
          LET u == units[t]
              f == FunctorOf(u.kind)
              p == IF u.kind = "E"
                   THEN getEfieldPositions_SI(fieldE, u.cellIdx)
                   ELSE getBfieldPositions_SI(fieldB, u.cellIdx)
          IN  /\ u.pc \in {"positions", "returned"} =>
                   /\ u.time_SI = time_SI(f, u.currentStep)
                   /\ \A k \in 1..u.i : u.positions_SI[k] = p[k]
              /\ u.pc = "returned" =>
                   /\ u.positions_SI = p
                   /\ u.result = Alone(t).value

C13_Witness ==
    /\ units[1].pc = "returned"
    /\ units[2].pc = "returned"
    /\ units[1].kind = "E"
    /\ units[2].kind = "B"
    /\ units[1].cellIdx # units[2].cellIdx
    /\ units[1].currentStep # units[2].currentStep
    /\ units[1].time_SI # units[2].time_SI
    /\ units[1].result # units[2].result

(* Arguments of the constructors that break one of the invariants of the
   laser parameters each (wavelength > 0, waists > 0, pulse length > 0,
   phi in (-PI, PI], beta_0 > 0).  PhiT13Turn is the angle of PhiT13 plus
   a full turn: the same sine and cosine, and cos(PI/2 - phi/2) negated. *)
PhiT13Turn == Angle(<<24, 25>>, <<7, 25>>, <<-3, 5>>)

PhiOutOfRange == {PhiT13Turn}

InvalidParameters ==
    LET Base == {p \in Parameters :
                    /\ p.phi = PhiT13
                    /\ p.focus_y_SI = Num(6)
                    /\ p.pulselength_SI = Num(5)
                    /\ p.tdelay_user_SI = Num(40)}
    IN  UNION {
          { [p EXCEPT !.wavelength_SI = Zero],
            [p EXCEPT !.wavelength_SI = Num(-8)],
            [p EXCEPT !.w_x_SI = Zero],
            [p EXCEPT !.w_y_SI = Num(-30)],
            [p EXCEPT !.pulselength_SI = Zero],
            [p EXCEPT !.pulselength_SI = Num(-5)],
            [p EXCEPT !.phi = PhiT13Turn],
            [p EXCEPT !.beta_0 = Zero],
            [p EXCEPT !.beta_0 = <<-1, 2>>] } : p \in Base }

InitInvalid ==
    /\ env \in Environments
    /\ param \in InvalidParameters
    /\ fieldE = NotConstructed
    /\ fieldB = NotConstructed
    /\ out = NoCall
    /\ units = [t \in Units |-> IdleFrame]

SpecInvalid == InitInvalid /\ [][Next]_vars

ValidLaserParameters(f) ==
    /\ RLess(Zero, f.wavelength_SI)
    /\ RLess(Zero, f.w_x_SI)
    /\ RLess(Zero, f.w_y_SI)
    /\ RLess(Zero, f.pulselength_SI)
    /\ f.phi \notin PhiOutOfRange
    /\ RLess(Zero, f.beta_0)

(* C14 as stated: the construction of a functor with arguments that break
   an invariant of the laser parameters aborts, so that no functor holding
   such parameters exists and none is ever called for a cell. *)
C14_Claim ==
    /\ \A f \in Constructed : ValidLaserParameters(f)
    /\ out.kind = "E" => ValidLaserParameters(fieldE)
    /\ out.kind = "B" => ValidLaserParameters(fieldB)

(* The functor of the call that has returned. *)
Called == IF out.kind = "E" THEN fieldE ELSE fieldB

CallAt(cellIdx, currentStep) ==
    IF out.kind = "E"
    THEN TWTSFieldE_call(fieldE, cellIdx, currentStep)
    ELSE TWTSFieldB_call(fieldB, cellIdx, currentStep)

(* C15: the time both functors pass to the closed forms is
   currentStep * dt - tdelay: every evaluation of a call is made at that
   time, which is -tdelay at step 0, is the time of the step before plus dt
   at every later step, and is the same for every other cell at that step. *)
C15_EvaluationTime ==
    out.kind # "none" =>
        LET f == Called
            s == out.currentStep
        IN  /\ out.time = RSub(RMul(Num(s), f.dt), f.tdelay)
            /\ \A i \in 1..Len(out.evals) : out.evals[i].time = out.time
            /\ s = 0 => out.time = RNeg(f.tdelay)
            /\ s > 0 =>
                 out.time = RAdd(RSub(RMul(Num(s - 1), f.dt), f.tdelay), f.dt)
            /\ \A c \in ParCells :
                 LET r == CallAt(c, s)
                 IN  \A i \in 1..Len(r.evals) : r.evals[i].time = out.time

C15_Witness ==
    /\ out.kind = "B"
    /\ out.currentStep = 1
    /\ out.cellIdx \notin ParCells
    /\ fieldB.auto_tdelay
    /\ IsFinite(fieldB.tdelay)
    /\ fieldB.dt = Half
    /\ out.time = RSub(Half, fieldB.tdelay)
    /\ Len(out.evals) = 4

(* A component of a returned field: the constant 0 or a combination of
   evaluations of the closed forms. *)
IsFieldComponent(v) ==
    \A j \in 1..Len(v) : v[j].e.fn \in {"Ex", "By", "Bz"} /\ Len(v[j].e.pos) = 3

(* The number of statements a unit has still to run before its call has
   returned: the computation of the time, one turn of the loop for each
   field component not yet mapped, and the return. *)
StepsLeft(u) ==
    IF u.pc = "time" THEN numComponents + 2
    ELSE IF u.pc = "positions" THEN numComponents - u.i + 1
    ELSE 0

(* C16: every call of the E or of the B functor terminates and returns a
   value of 3 components, also for parameters with which a quotient is a
   division by zero (phi = 0: cos(eta) = 0 in the delay and sin(phi) = 0 in
   the closed forms), where the evaluation time is not finite.  A unit is
   idle, at a statement of operator() or has returned, and there is no other
   position (no error state); at a statement it can always run (the loop is
   either continued or left); every statement it runs lowers the number of
   statements left, which is at most numComponents + 2 and never negative,
   so the call returns; the loop makes at most numComponents turns; the
   value returned has 3 components, each the constant 0 or a combination
   of evaluations of the closed forms at a position of 3 coordinates. *)
C16_CallsTerminate ==
    /\ [](\A t \in Units :
            /\ units[t].pc \in {"idle", "time", "positions", "returned"}
            /\ units[t].i \in 0..numComponents
            /\ StepsLeft(units[t]) \in 0..(numComponents + 2)
            /\ units[t].pc = "returned" =>
                 /\ Len(units[t].result) = 3
                 /\ \A k \in 1..3 : IsFieldComponent(units[t].result[k]))
    /\ [][\A t \in Units :
            (units[t].pc \in {"time", "positions"} /\ units'[t] # units[t]) =>
                StepsLeft(units'[t]) < StepsLeft(units[t])]_vars

C16_Witness ==
    /\ units[1].pc = "returned"
    /\ units[1].kind = "B"
    /\ fieldB.phi = PhiZero
    /\ fieldB.auto_tdelay
    /\ ~IsFinite(fieldB.tdelay)
    /\ ~IsFinite(units[1].time_SI)
    /\ units[1].i = numComponents
    /\ Len(units[1].result) = 3
    /\ units[2].pc = "positions"

(* The direction of phi/2 for phi in (-PI, PI]: that of (1 + cos(phi),
   sin(phi)) = 2*cos(phi/2) * (cos(phi/2), sin(phi/2)), and of (0, 1) for
   phi = PI. *)
HalfAngle(phi) ==
    IF phi.cos = RNeg(One) THEN <<0, 1>>
    ELSE atan2(phi.sin, RAdd(One, phi.cos))

(* The direction opposite to d: the angle turned by PI. *)
Opposite(d) == <<-d[1], -d[2]>>

(* C17 as stated: with beta0 = 1 the tilt phiT = 2*alphaTilt that the
   closed forms of a call use equals phi, that is alphaTilt = phi/2, for
   every angle of the table. *)
C17_Original ==
    (out.kind # "none" /\ Called.beta_0 = One) =>
        out.alphaTilt = HalfAngle(Called.phi)

(* C17 as amended: with beta0 = 1 the tilt phiT equals phi for
   0 <= phi <= PI, in particular at phi = PI/2, where alphaTilt = PI/4; for
   -PI < phi < 0 it is phi + 2*PI: alphaTilt is phi/2 turned by PI. *)
C17_TiltAngle ==
    (out.kind # "none" /\ Called.beta_0 = One) =>
        LET phi == Called.phi
        IN  /\ RLeq(Zero, phi.sin) => out.alphaTilt = HalfAngle(phi)
            /\ RLess(phi.sin, Zero) =>
                 out.alphaTilt = Opposite(HalfAngle(phi))
            /\ (phi.sin = One /\ phi.cos = Zero) => out.alphaTilt = <<1, 1>>

C17_Witness ==
    /\ out.kind = "E"
    /\ fieldE.beta_0 = One
    /\ fieldE.phi = PhiT12
    /\ out.alphaTilt = <<3, 4>>
    /\ out.alphaTilt = HalfAngle(fieldE.phi)

(* The position of component k before the rotation, with the axes in the
   order of the simulation (the 2-D mapper of B has exchanged x and y). *)
Unswapped(k) ==
    IF out.kind = "B" /\ env.simDim = 2
    THEN <<out.unrot[k][2], out.unrot[k][1]>>
    ELSE out.unrot[k]

YeeOffsets == IF out.kind = "E" THEN env.EFieldPosition ELSE env.BFieldPosition

CellSize_SI(a) == RMul(env.cellSize[a], Called.unit_length)

(* The origin, in cells, that the mapper of the call used for component k
   on axis a: position / cellSize = cellIdx + yeeOffset - origin. *)
OriginUsed(k, a) ==
    RSub(RAdd(Num(out.cellIdx[a]), YeeOffsets[k][a]),
         RDiv(Unswapped(k)[a], CellSize_SI(a)))

(* C18 as stated: the origin of the laser is the half extent of the domain
   on every axis, shifted on the y axis by focusY / cellSizeY:
   origin.y = halfSimSize.y + focusY / cellSizeY. *)
C18_Original ==
    out.kind # "none" =>
        \A k \in 1..numComponents, a \in 1..env.simDim :
            OriginUsed(k, a) =
                IF a = 2
                THEN RAdd(Num(Called.halfSimSize[2]),
                          RDiv(Called.focus_y_SI, CellSize_SI(2)))
                ELSE Num(Called.halfSimSize[a])

(* C18 as amended: the origin of the laser is the half extent of the domain
   on every axis but y, where it is focusY / cellSizeY in the place of the
   half extent: origin.y = focusY / cellSizeY. *)
C18_LaserOrigin ==
    out.kind # "none" =>
        \A k \in 1..numComponents, a \in 1..env.simDim :
            OriginUsed(k, a) =
                IF a = 2
                THEN RDiv(Called.focus_y_SI, CellSize_SI(2))
                ELSE Num(Called.halfSimSize[a])

C18_Witness ==
    /\ out.kind = "B"
    /\ env.simDim = 3
    /\ fieldB.focus_y_SI = Num(6)
    /\ fieldB.halfSimSize = <<2, 3, 5>>
    /\ OriginUsed(1, 2) = <<3, 2>>
    /\ OriginUsed(1, 1) = Num(2)
    /\ OriginUsed(3, 3) = Num(5)

(* The positions before the rotation that the mapper of the functor called
   gives for a cell, with the axes in the order of the simulation. *)
UnrotatedAt(cellIdx) ==
    IF out.kind = "E" THEN EfieldPositionsUnrotated(fieldE, cellIdx)
    ELSE IF env.simDim = 3 THEN BfieldPositionsUnrotated_DIM3(fieldB, cellIdx)
    ELSE LET p == BfieldPositionsUnrotated_DIM2(fieldB, cellIdx)
         IN  [k \in 1..numComponents |-> <<p[k][2], p[k][1]>>]

(* The origin of the laser, in cells. *)
OriginCells(a) ==
    IF a = 2 THEN RDiv(Called.focus_y_SI, CellSize_SI(2))
    ELSE Num(Called.halfSimSize[a])

ShiftedCell(cellIdx, a, d) == [cellIdx EXCEPT ![a] = cellIdx[a] + d]

ZeroOffsets ==
    [k \in 1..numComponents |-> [a \in 1..env.simDim |-> Zero]]

(* C19: before the rotation (and, in the 2-D mapper of B, before the
   exchange of x and y) the position of component k is
   (cellIdx + yeeOffset_k - laserOrigin) * cellSize on every axis, with the
   offset of component k itself; the cell shifted by d cells on an axis
   has that coordinate shifted by d * cellSize and the others unchanged;
   and where the origin is a cell, that cell with the offset 0 is mapped to
   the zero vector. *)
C19_PositionMapping ==
    out.kind # "none" =>
        /\ \A k \in 1..numComponents, a \in 1..env.simDim :
              Unswapped(k)[a] =
                  RMul(RSub(RAdd(Num(out.cellIdx[a]), YeeOffsets[k][a]),
                            OriginCells(a)),
                       CellSize_SI(a))
        /\ \A a \in 1..env.simDim, d \in {1, 3} :
              LET p == UnrotatedAt(ShiftedCell(out.cellIdx, a, d))
              IN  \A k \in 1..numComponents, b \in 1..env.simDim :
                      p[k][b] =
                          IF b = a
                          THEN RAdd(Unswapped(k)[b],
                                    RMul(Num(d), CellSize_SI(a)))
                          ELSE Unswapped(k)[b]
        /\ (\A a \in 1..env.simDim : OriginCells(a)[2] = 1) =>
              LET cell == [a \in 1..env.simDim |-> OriginCells(a)[1]]
                  p == fieldPositionsUnrotated(Called, cell, ZeroOffsets)
              IN  \A k \in 1..numComponents, a \in 1..env.simDim :
                      p[k][a] = Zero

C19_Witness ==
    /\ out.kind = "E"
    /\ env.simDim = 3
    /\ out.cellIdx = <<1, 0, 1>>
    /\ fieldE.focus_y_SI = Num(6)
    /\ fieldE.unit_length = Num(2)
    /\ out.unrot[1] = <<Num(-1), Num(-6), Num(-24)>>
    /\ out.unrot[2] = <<Num(-2), Num(-4), Num(-24)>>
    /\ out.unrot[3] = <<Num(-2), Num(-6), Num(-21)>>

(* The axis of the walk-off: the depth z in 3-D, the width x in 2-D. *)
WalkOffAxis == IF env.simDim = 3 THEN 3 ELSE 1

OtherExtents == {1, 50}

(* C20: the walk-off y1 of the automatic delay is made of the half extent
   and the cell size of the depth axis in 3-D and of the width axis in 2-D:
   the delay for a pulse of length 0 and focus 0, which is y1 / (c * beta0),
   times c * beta0 is halfSimSize[axis] * cellSize[axis] * |cos(eta)|; the
   delay is the same with any other half extent on each of the other axes,
   and another one with one more cell on the axis of the walk-off. *)
C20_WalkOffAxis ==
    \A f \in Constructed :
        (f.auto_tdelay /\ f.phi.cosEta # Zero /\ out = NoCall) =>
            LET c    == SPEED_OF_LIGHT_SI
                a    == WalkOffAxis
                walk == get_tdelay_SI(TRUE, f.tdelay_user_SI, f.halfSimSize,
                                      Zero, Zero, f.phi, f.beta_0)
            IN  /\ RMul(RMul(walk, c), f.beta_0)
                     = RMul(RMul(Num(f.halfSimSize[a]),
                                 RMul(env.cellSize[a], env.UNIT_LENGTH)),
                            RAbs(f.phi.cosEta))
                /\ \A b \in (1..env.simDim) \ {a}, n \in OtherExtents :
                      get_tdelay_SI(TRUE, f.tdelay_user_SI,
                                    [f.halfSimSize EXCEPT ![b] = n],
                                    f.pulselength_SI, f.focus_y_SI, f.phi,
                                    f.beta_0) = f.tdelay
                /\ get_tdelay_SI(TRUE, f.tdelay_user_SI,
                                 [f.halfSimSize EXCEPT ![a] = @ + 1],
                                 f.pulselength_SI, f.focus_y_SI, f.phi,
                                 f.beta_0) # f.tdelay

C20_Witness ==
    /\ fieldE # NotConstructed
    /\ fieldB = NotConstructed
    /\ out = NoCall
    /\ env.simDim = 2
    /\ fieldE.auto_tdelay
    /\ fieldE.halfSimSize = <<2, 3>>
    /\ fieldE.phi = PhiT12
    /\ fieldE.pulselength_SI = Num(2)
    /\ IsFinite(fieldE.tdelay)

(* The mapped position the E functor reads: that of Ex in 3-D, of Ez in
   2-D (counted from 1). *)
EComponentRead == IF env.simDim = 3 THEN 1 ELSE 3

OtherPositions ==
    IF env.simDim = 3
    THEN {<<Zero, Zero, Zero>>, <<NaN, One, Num(7)>>}
    ELSE {<<Zero, Zero>>, <<NaN, Num(7)>>}

(* C21: a call of the E functor evaluates its one amplitude at a position
   read from one mapped position only: from that of Ex (component 0) in 3-D
   and from that of Ez (component 2) in 2-D, which is the rotated position
   of the cell with the offset of that component in the cell of the field
   solver.  With any other position in the place of each of the other two
   mapped positions the functor makes the same evaluation and returns the
   same value, and with the position of the component read shifted it
   evaluates somewhere else. *)
C21_EPositionRead ==
    out.kind = "E" =>
        LET k     == EComponentRead
            shift == VSub(precisionCast(out.cellIdx), laserOrigin(fieldE))
            own   == VMul(VAdd(env.EFieldPosition[k], shift),
                          cellDimensions(fieldE))
            p     == out.evals[1].pos
            moved == MkVec(env.simDim,
                           [i \in 1..env.simDim |-> RAdd(out.pos[k][i], One)])
        IN  /\ Len(out.evals) = 1
            /\ out.pos[k] = rotateField(own, fieldE.phi)
            /\ env.simDim = 3 => p = out.pos[k]
            /\ env.simDim = 2 => p = <<Zero, out.pos[k][2], Zero>>
            /\ \A j \in (1..numComponents) \ {k}, other \in OtherPositions :
                 LET r == getTWTSEfield_Normalized(
                              fieldE, [out.pos EXCEPT ![j] = other], out.time)
                 IN  r.value = out.value /\ r.evals = out.evals
            /\ IsFinite(out.pos[k][2]) =>
                 getTWTSEfield_Normalized(
                     fieldE, [out.pos EXCEPT ![k] = moved], out.time).evals
                   # out.evals

C21_Witness ==
    /\ out.kind = "E"
    /\ env.simDim = 2
    /\ fieldE.phi = PhiT13
    /\ out.cellIdx = <<1, 0>>
    /\ out.pos[1] # out.pos[3]
    /\ out.pos[2] # out.pos[3]
    /\ out.pos[1][2] # out.pos[3][2]
    /\ IsFinite(out.pos[3][2])

(***************************************************************************)
(* Simulations whose focus is not a whole number of halves of a cell: the  *)
(* quotient focus_y_SI / cellDimensions.y() = 1/3 has no finite binary     *)
(* expansion.  The pulse runs along y or against it.                       *)
(***************************************************************************)
NarrowEnvironments ==
    { Environment(3, <<8, 8, 8>>, <<One, Num(3), One>>, One, One),
      Environment(2, <<8, 8>>, <<One, Num(3)>>, One, One) }

NarrowParameters ==
    {p \in Parameters : p.phi \in {PhiZero, PhiPi}} \cup
    {[p EXCEPT !.focus_y_SI = One] :
        p \in {q \in Parameters : q.phi \in {PhiZero, PhiPi}}}

InitNarrow ==
    /\ env \in NarrowEnvironments
    /\ param \in NarrowParameters
    /\ fieldE = NotConstructed
    /\ fieldB = NotConstructed
    /\ out = NoCall
    /\ units = [t \in Units |-> IdleFrame]

SpecNarrow == InitNarrow /\ [][Next]_vars

(* The position of component k of the call carried in float_64 all the way:
   (cellIdx + yeeOffset_k - laserOrigin) * cellSize with the origin
   focus_y_SI / cellSize.y on y, the exchange of x and y in the 2-D mapper
   of B, and the rotation. *)
Unrotated_64(k) ==
    LET v == [a \in 1..env.simDim |->
                 RMul(RSub(RAdd(Num(out.cellIdx[a]), YeeOffsets[k][a]),
                           OriginCells(a)),
                      CellSize_SI(a))]
    IN  IF out.kind = "B" /\ env.simDim = 2 THEN <<v[2], v[1]>> ELSE v

Position_64(k) == rotateField(Unrotated_64(k), Called.phi)

(* C22 as stated: every position of a call is carried in float_64 from the
   cell index on, no intermediate is held in float_X: each of the three
   positions a mapper returns is the rotation of
   (cellIdx + yeeOffset - laserOrigin) * cellSize computed in float_64. *)
C22_Claim ==
    out.kind # "none" =>
        \A k \in 1..numComponents : out.pos[k] = Position_64(k)

(* C23 as stated: in 2-D the mappers of E and of B make the same rotated
   position of the same cell for equal offsets in the cell of the field
   solver, for every phi: the position of Ex is that of By (offset
   (1/2, 0)) and the position of Ey is that of Bx (offset (0, 1/2)). *)
C23_Claim ==
    (env.simDim = 2 /\ fieldE # NotConstructed /\ fieldB # NotConstructed
       /\ out.kind = "B") =>
        LET e == getEfieldPositions_SI(fieldE, out.cellIdx)
        IN  /\ env.EFieldPosition[1] = env.BFieldPosition[2]
            /\ env.EFieldPosition[2] = env.BFieldPosition[1]
            /\ e[1] = out.pos[2]
            /\ e[2] = out.pos[1]

(* The position (0, first rotated component, second rotated component) of
   the mapped position k of a 2-D call. *)
Embedded2D(k) == <<Zero, out.pos[k][1], out.pos[k][2]>>

(* C24 as stated: in 2-D both components of the rotated position reach the
   closed forms: calcTWTSEx is evaluated at (0, r[0], r[1]) for the rotated
   position r of Ez, calcTWTSBy and calcTWTSBz at (0, r[0], r[1]) for the
   rotated positions r of By and of Bx. *)
C24_Claim ==
    (out.kind # "none" /\ env.simDim = 2) =>
        IF out.kind = "E"
        THEN /\ Len(out.evals) = 1
             /\ out.evals[1].pos = Embedded2D(3)
        ELSE /\ Len(out.evals) = 4
             /\ out.evals[1].pos = Embedded2D(2)
             /\ out.evals[2].pos = Embedded2D(2)
             /\ out.evals[3].pos = Embedded2D(1)
             /\ out.evals[4].pos = Embedded2D(1)

(* The safety margin y2 = m * (pulselength_SI * c) / cos(eta) of the
   automatic delay of a functor. *)
SafetyMargin(f) ==
    RDiv(RMul(Num(3), RMul(f.pulselength_SI, SPEED_OF_LIGHT_SI)),
         f.phi.cosEta)

(* C25 as stated: for parameters within the invariants of the laser
   parameters (phi in (-PI, PI], beta0 > 0, pulse length > 0) and
   focusY >= 0 the automatic delay is finite and greater than 0, the
   evaluation time of step 0 is less than 0, and the safety margin y2 is
   finite and greater than 0. *)
C25_Claim ==
    \A f \in Constructed :
        (/\ f.auto_tdelay
         /\ ValidLaserParameters(f)
         /\ RLeq(Zero, f.focus_y_SI)) =>
            /\ IsFinite(f.tdelay)
            /\ RLess(Zero, f.tdelay)
            /\ RLess(time_SI(f, 0), Zero)
            /\ IsFinite(SafetyMargin(f))
            /\ RLess(Zero, SafetyMargin(f))

(* The functor that the call in out was not made on. *)
OtherFunctor == IF out.kind = "E" THEN fieldB ELSE fieldE

(* C26: an E functor and a B functor constructed with the same nine
   arguments in the same simulation hold the same tdelay, so that for every
   step they have the same evaluation time, and every evaluation of a
   closed form that a call of one of them makes is made at the time the
   other one has for that step. *)
C26_SameEvaluationTime ==
    (fieldE # NotConstructed /\ fieldB # NotConstructed) =>
        /\ fieldE.tdelay = fieldB.tdelay
        /\ \A currentStep \in Steps :
              time_SI(fieldE, currentStep) = time_SI(fieldB, currentStep)
        /\ out.kind # "none" =>
              \A n \in 1..Len(out.evals) :
                  out.evals[n].time = time_SI(OtherFunctor, out.currentStep)

C26_Witness ==
    /\ fieldE # NotConstructed
    /\ fieldB # NotConstructed
    /\ out.kind = "B"
    /\ out.currentStep = 1
    /\ fieldB.auto_tdelay
    /\ IsFinite(fieldB.tdelay)
    /\ fieldB.tdelay # fieldB.tdelay_user_SI
    /\ Len(out.evals) = 4

====
